---------------------------- MODULE Spec2Model ----------------------------
(***************************************************************************)
(* Balanced-ternary codec of the LIMNUS application.                        *)
(*                                                                         *)
(* The codec is three pure functions:                                      *)
(*   decimalToBalancedTernary  (constants/limnus.ts and                    *)
(*                              components/TPhi10NeuralLimnus.tsx)         *)
(*   balancedTernaryToDecimal  (components/TPhi10NeuralLimnus.tsx)         *)
(*   validateTernaryInput      (components/TPhi10NeuralLimnus.tsx)         *)
(* Strings are modelled as sequences of one-character strings, numbers as  *)
(* integers (every value the functions see here is far below 2^53, where   *)
(* the host's floating-point arithmetic is exact).                         *)
(***************************************************************************)
EXTENDS Integers, Sequences, FiniteSets, TLC

(***************************************************************************)
(* Bounds of the model.                                                    *)
(***************************************************************************)
\* largest digit count a caller of the encoder reasons with
MaxLen == 8
\* longest string handed to the decoder and to the validator
MaxCodeLen == 6

(***************************************************************************)
(* CONFIG.TERNARY / TERNARY_CONSTANTS                                      *)
(***************************************************************************)
DIGIT_MAP == [c \in {"T", "0", "1"} |-> IF c = "T" THEN -1 ELSE IF c = "0" THEN 0 ELSE 1]
BASE == 3
CODE_LENGTH == 5
MIN_VALUE == -121
MAX_VALUE == 121

\* the characters a string of the model is made of: the three digits and
\* two characters outside the digit map
Alphabet == {"T", "0", "1", "2", "X"}

Strings == UNION {[1..n -> Alphabet] : n \in 0..MaxCodeLen}

\* /^[T01]{5}$/.test(input)
VALID_PATTERN(input) ==
    /\ Len(input) = 5
    /\ \A i \in 1..Len(input) : input[i] \in {"T", "0", "1"}

(***************************************************************************)
(* Host arithmetic and string primitives                                   *)
(***************************************************************************)
\* a % b of the host language: the remainder takes the sign of the dividend
JsRem(a, b) == IF a >= 0 THEN a % b ELSE -((-a) % b)

\* MathFloorDiv with the quotient truncated toward zero, (a / b) | 0
MathTruncDiv(a, b) == IF a >= 0 THEN a \div b ELSE -((-a) \div b)

\* Math.floor(a / b) for b > 0
MathFloorDiv(a, b) == a \div b

\* Number.prototype.toString on the remainders 0, 1 (and 2)
NumToString(n) == IF n = 0 THEN "0" ELSE IF n = 1 THEN "1" ELSE "2"

\* String.prototype.padStart: pads on the left, never truncates
padStart(str, targetLength, pad) ==
    IF Len(str) >= targetLength
    THEN str
    ELSE [i \in 1..(targetLength - Len(str)) |-> pad] \o str

(***************************************************************************)
(* decimalToBalancedTernary                                                *)
(***************************************************************************)
\* EncodeDigits with digits.push in place of digits.unshift: the digits come
\* out least significant first
RECURSIVE EncodeDigitsPush(_, _)
EncodeDigitsPush(num, digits) ==
    IF num = 0
    THEN digits
    ELSE LET remainder == (JsRem(num, 3) + 3) % 3
         IN  IF remainder = 2
             THEN EncodeDigitsPush(MathFloorDiv(num, 3) + 1, digits \o <<"T">>)
             ELSE EncodeDigitsPush(MathFloorDiv(num, 3), digits \o <<NumToString(remainder)>>)

\* EncodeDigits that carries on remainder 2 but writes the raw remainder
\* instead of the digit T
RECURSIVE EncodeDigitsRawRemainder(_, _)
EncodeDigitsRawRemainder(num, digits) ==
    IF num = 0
    THEN digits
    ELSE LET remainder == (JsRem(num, 3) + 3) % 3
         IN  IF remainder = 2
             THEN EncodeDigitsRawRemainder(MathFloorDiv(num, 3) + 1, <<"2">> \o digits)
             ELSE EncodeDigitsRawRemainder(MathFloorDiv(num, 3), <<NumToString(remainder)>> \o digits)

\* one pass of the while loop: digits.unshift(...) and the new num
RECURSIVE EncodeDigits(_, _)
EncodeDigits(num, digits) ==
    IF num = 0
    THEN digits
    ELSE LET remainder == (JsRem(num, 3) + 3) % 3
         IN  IF remainder = 2
             THEN EncodeDigits(MathFloorDiv(num, 3) + 1, <<"T">> \o digits)
             ELSE EncodeDigits(MathFloorDiv(num, 3), <<NumToString(remainder)>> \o digits)

\* decimalToBalancedTernary without the padding: '0' for zero and the bare
\* digits otherwise
decimalToBalancedTernaryUnpadded(decimal) ==
    IF decimal = 0
    THEN <<"0">>
    ELSE EncodeDigits(decimal, <<>>)

\* constants/limnus.ts rounds its argument first (Math.round); the argument
\* is an integer in every call of the model, and Math.round of an integer
\* is that integer, so both copies of the function compute the same string.
decimalToBalancedTernary(decimal) ==
    IF decimal = 0
    THEN <<"0", "0", "0", "0", "0">>
    ELSE padStart(EncodeDigits(decimal, <<>>), CODE_LENGTH, "0")

(***************************************************************************)
(* balancedTernaryToDecimal                                                *)
(***************************************************************************)
\* DigitValue that loses the sign of T
DigitValueUnsigned(c) == IF c \in DOMAIN DIGIT_MAP THEN (IF c = "0" THEN 0 ELSE 1) ELSE 0

\* DIGIT_MAP.get(c) ?? 0
DigitValue(c) == IF c \in DOMAIN DIGIT_MAP THEN DIGIT_MAP[c] ELSE 0

\* DecodeLoop that walks the string from its first character, so that the
\* leftmost digit gets the weight 3^0
RECURSIVE DecodeLoopForward(_, _, _, _)
DecodeLoopForward(code, i, result, power) ==
    IF i < 1
    THEN result
    ELSE DecodeLoopForward(code, i - 1,
                           result + DigitValue(code[Len(code) - i + 1]) * power,
                           power * BASE)

\* the for loop, i running from code.length - 1 down to 0 (here Len(code) to 1)
RECURSIVE DecodeLoop(_, _, _, _)
DecodeLoop(code, i, result, power) ==
    IF i < 1
    THEN result
    ELSE DecodeLoop(code, i - 1, result + DigitValue(code[i]) * power, power * BASE)

balancedTernaryToDecimal(code) == DecodeLoop(code, Len(code), 0, 1)

(***************************************************************************)
(* validateTernaryInput                                                    *)
(***************************************************************************)
\* validateTernaryInput without the pattern test
validateTernaryInputLengthOnly(input) ==
    IF input = <<>>
    THEN [isValid |-> FALSE, error |-> "empty"]
    ELSE IF Len(input) # CODE_LENGTH
    THEN [isValid |-> FALSE, error |-> "length"]
    ELSE [isValid |-> TRUE, error |-> "none"]

validateTernaryInput(input) ==
    IF input = <<>>
    THEN [isValid |-> FALSE, error |-> "empty"]
    ELSE IF Len(input) # CODE_LENGTH
    THEN [isValid |-> FALSE, error |-> "length"]
    ELSE IF ~VALID_PATTERN(input)
    THEN [isValid |-> FALSE, error |-> "characters"]
    ELSE [isValid |-> TRUE, error |-> "none"]

(***************************************************************************)
(* LimnusSpiralGenerator                                                   *)
(*                                                                         *)
(* Two classes of this name exist: the one of constants/limnus.ts          *)
(* (variant "constants") and the one of components/TPhi10NeuralLimnus.tsx  *)
(* (variant "tphi10").  A generator object is the record of its fields     *)
(*   nodes, currentIndex, blockchainInfluence                              *)
(* and a method is an operator from the object to the object after the     *)
(* call, the value returned and the exception raised.  A node is reduced   *)
(* to its index (field index in constants/limnus.ts, depth in TPhi10) and  *)
(* to the influence its quantum fields were scaled by, 0 as generated.     *)
(***************************************************************************)
\* CONFIG.LIMNUS.SPIRAL_NODES of constants/limnus.ts
SPIRAL_NODES == 100
\* CONFIG.LIMNUS.SPIRAL_NODES of components/TPhi10NeuralLimnus.tsx
TPHI10_SPIRAL_NODES == 50000
\* the literal loop bound of generateInitialNodes
TPHI10_LOOP_BOUND == 100

\* the host's NaN; no index computation of the model yields this number
NaN == -1000000

Undefined == [kind |-> "undefined"]
NodeValue(n) == [kind |-> "node", node |-> n]
NumberValue(n) == [kind |-> "number", value |-> n]
ListValue(l) == [kind |-> "nodes", list |-> l]
NoValue == [kind |-> "none"]

\* a + b and a % b of the host on numbers that may be NaN
JsAdd(a, b) == IF a = NaN THEN NaN ELSE a + b
JsMod(a, b) == IF a = NaN \/ b = 0 THEN NaN ELSE JsRem(a, b)

\* arr[i]: undefined outside 0 .. arr.length - 1
ArrayGet(arr, i) ==
    IF i \in 0..(Len(arr) - 1) THEN NodeValue(arr[i + 1]) ELSE Undefined

\* the object pushed for index i
Node(i) == [index |-> i, scaledBy |-> 0]

\* generateNodes of constants/limnus.ts: one push per i < spiralNodes
generateNodes(spiralNodes) ==
    [k \in 1..(IF spiralNodes > 0 THEN spiralNodes ELSE 0) |-> Node(k - 1)]

\* generateInitialNodes of TPhi10: one push per i < 100
generateInitialNodes == [k \in 1..TPHI10_LOOP_BOUND |-> Node(k - 1)]

\* new LimnusSpiralGenerator(); spiralNodes is the configured node count
\* of the module the class lives in
NewGenerator(variant, spiralNodes) ==
    [variant |-> variant,
     nodes |-> IF variant = "constants" THEN generateNodes(spiralNodes)
                                        ELSE generateInitialNodes,
     currentIndex |-> 0,
     blockchainInfluence |-> <<>>]

\* blockchainInfluence.get(depth) || 0
InfluenceOf(g, depth) ==
    IF depth \in DOMAIN g.blockchainInfluence
    THEN g.blockchainInfluence[depth]
    ELSE 0

\* applyBlockchainInfluence that scales the fields of its argument in place
\* instead of copying it first
applyBlockchainInfluenceInPlace(node, influence) ==
    [result |-> [node EXCEPT !.scaledBy = influence],
     argument |-> [node EXCEPT !.scaledBy = influence]]

\* applyBlockchainInfluence: { ...node } with its quantum fields scaled; the
\* node passed in is left as it was
applyBlockchainInfluence(node, influence) ==
    [result |-> [node EXCEPT !.scaledBy = influence],
     argument |-> node]

\* the common tail of getCurrentNode and getNode of TPhi10, for the array
\* position idx: node.depth raises a TypeError when the node is undefined
InfluencedNodeAt(g, idx) ==
    LET node == ArrayGet(g.nodes, idx)
    IN  IF node.kind = "undefined"
        THEN [generator |-> g, value |-> NoValue, thrown |-> "TypeError"]
        ELSE LET influence == InfluenceOf(g, node.node.index)
             IN  IF influence > 0
                 THEN LET a == applyBlockchainInfluence(node.node, influence)
                      IN  [generator |-> [g EXCEPT !.nodes[idx + 1] = a.argument],
                           value |-> NodeValue(a.result),
                           thrown |-> "none"]
                 ELSE [generator |-> g, value |-> node, thrown |-> "none"]

\* getCurrentNode
getCurrentNode(g) ==
    IF g.variant = "constants"
    THEN [generator |-> g,
          value |-> ArrayGet(g.nodes, g.currentIndex),
          thrown |-> "none"]
    ELSE InfluencedNodeAt(g, JsMod(g.currentIndex, Len(g.nodes)))

\* (currentIndex + 1) of advance without the modulo
NextIndexUnwrapped(currentIndex, n) == JsAdd(currentIndex, 1)

\* (this.currentIndex + 1) % this.nodes.length
NextIndex(currentIndex, n) == JsMod(JsAdd(currentIndex, 1), n)

\* advance that returns the current node without moving the cursor
advanceWithoutAssignment(g) == getCurrentNode(g)

\* advance: the assignment, then return this.getCurrentNode()
advance(g) ==
    getCurrentNode([g EXCEPT !.currentIndex = NextIndex(g.currentIndex, Len(g.nodes))])

\* getNode of TPhi10: this.nodes[index % this.nodes.length]
getNode(g, index) == InfluencedNodeAt(g, JsMod(index, Len(g.nodes)))

\* updateBlockchainInfluence of TPhi10: blockchainInfluence.set(depth, influence)
updateBlockchainInfluence(g, depth, influence) ==
    [generator |->
        [g EXCEPT !.blockchainInfluence =
            [d \in (DOMAIN g.blockchainInfluence) \cup {depth} |->
                IF d = depth THEN influence ELSE g.blockchainInfluence[d]]],
     value |-> NoValue,
     thrown |-> "none"]

\* getTotalNodes of TPhi10
getTotalNodes(g) ==
    [generator |-> g, value |-> NumberValue(Len(g.nodes)), thrown |-> "none"]

\* getVisualizationNodes of TPhi10: count nodes from
\* Math.max(0, currentIndex - count + 1) on, each with its influence applied
getVisualizationNodes(g, count) ==
    LET startIndex == IF g.currentIndex - count + 1 > 0
                      THEN g.currentIndex - count + 1 ELSE 0
        entry(i) ==
            LET node == g.nodes[JsMod(startIndex + i, Len(g.nodes)) + 1]
                influence == InfluenceOf(g, node.index)
            IN  IF influence > 0
                THEN applyBlockchainInfluence(node, influence).result
                ELSE node
    IN  [generator |-> g,
         value |-> ListValue([k \in 1..count |-> entry(k - 1)]),
         thrown |-> "none"]

(***************************************************************************)
(* State: one call to the codec, its arguments and its outcome             *)
(***************************************************************************)
VARIABLES
    pc,         \* "call" before the function has run, "done" after
    op,         \* the function called: "encode", "decode" or "validate"
    decimal,    \* argument of decimalToBalancedTernary
    length,     \* digit count the caller of the encoder reasons with; the
                \* function itself takes no length and pads to CODE_LENGTH
    input,      \* argument of balancedTernaryToDecimal / validateTernaryInput
    encoded,    \* string returned by decimalToBalancedTernary
    decoded,    \* number returned by balancedTernaryToDecimal
    validation, \* object returned by validateTernaryInput
    thrown      \* exception raised by the call, "none" if it returned

(***************************************************************************)
(* State: one generator object and the last call made on it                *)
(***************************************************************************)
VARIABLES
    gstate,      \* "off", "new" before the constructor has run, "ready" after
    variant,     \* the class the object is of: "constants" or "tphi10"
    spiralNodes, \* CONFIG.LIMNUS.SPIRAL_NODES of the module of that class
    generator,   \* the object: nodes, currentIndex, blockchainInfluence
    call,        \* the last method called and its arguments
    returned,    \* the value that call returned
    raised,      \* the exception that call raised, "none" if it returned
    advances     \* number of advance() calls since construction

(***************************************************************************)
(* State: the generator objects of the running application and the         *)
(* component instances that hold a reference to one                        *)
(***************************************************************************)
VARIABLES
    heap,        \* the generator objects constructed so far, by identity
    consumers,   \* per component instance: its screen, the generator it
                 \* references, its handlers in flight and whether it has
                 \* called advance() on that generator
    advanceCalls \* per generator object: number of advance() calls made on it

codecVars == <<pc, op, decimal, length, input, encoded, decoded, validation, thrown>>
spiralVars == <<gstate, variant, spiralNodes, generator, call, returned, raised, advances>>

consumerVars == <<heap, consumers, advanceCalls>>

\* no generator object
NoGenerator == [variant |-> "none", nodes |-> <<>>, currentIndex |-> 0,
                blockchainInfluence |-> <<>>]

(***************************************************************************)
(* State: the generation of two nodes, observed field by field             *)
(***************************************************************************)
VARIABLES
    nodePc,     \* "off", "call" (before the constructor runs), "done"
    nodeClass,  \* "constants" or "tphi10": the class constructed
    nodeI1,     \* the indexes of the two nodes observed
    nodeI2,
    nodeA,      \* the node generated for nodeI1
    nodeB       \* the node generated for nodeI2

nodeVars == <<nodePc, nodeClass, nodeI1, nodeI2, nodeA, nodeB>>

(***************************************************************************)
(* State: one call of mapFrequenciesToTernary                              *)
(***************************************************************************)
VARIABLES
    freqPc,           \* "off", "call", "done"
    frequencies,      \* the argument
    normalizedValue,  \* the value handed to decimalToBalancedTernary
    ternaryCode       \* the string returned

freqVars == <<freqPc, frequencies, normalizedValue, ternaryCode>>

FrequenciesOff ==
    /\ freqPc = "off"
    /\ frequencies = <<>>
    /\ normalizedValue = 0
    /\ ternaryCode = <<>>

(***************************************************************************)
(* State: the reducer state of one TPhi10 component instance               *)
(***************************************************************************)
VARIABLES
    reducerPc,        \* "off" or "mounted"
    spiralGenerator,  \* the object state.spiralGenerator refers to
    appState,         \* state.currentNode and state.spiralPosition.depth
    evaluated         \* how often the reducer ran for the last action, and
                      \* which of the results the host kept

reducerVars == <<reducerPc, spiralGenerator, appState, evaluated>>

Null == [kind |-> "null"]

ReducerOff ==
    /\ reducerPc = "off"
    /\ spiralGenerator = NoGenerator
    /\ appState = [currentNode |-> Null, depth |-> 0]
    /\ evaluated = [times |-> 0, kept |-> 0]

(***************************************************************************)
(* State: the sigil screen: its database and one decode request            *)
(***************************************************************************)
VARIABLES
    sigilPc,        \* "off", "load" (before createSigilDatabase), "ready", "done"
    sigilInput,     \* state.sigilInput
    sigilDatabase,  \* the Map createSigilDatabase returned: code -> sigil
    sigilOutcome    \* what handleSigilDecode dispatched

sigilVars == <<sigilPc, sigilInput, sigilDatabase, sigilOutcome>>

NoOutcome == [type |-> "none"]

SigilOff ==
    /\ sigilPc = "off"
    /\ sigilInput = <<>>
    /\ sigilDatabase = <<>>
    /\ sigilOutcome = NoOutcome

(***************************************************************************)
(* State: the while loop of decimalToBalancedTernary, pass by pass         *)
(***************************************************************************)
VARIABLES
    loopPc,      \* "off", "loop", "done"
    loopStart,   \* the argument decimal
    loopNum,     \* num
    loopDigits   \* digits

loopVars == <<loopPc, loopStart, loopNum, loopDigits>>

LoopOff ==
    /\ loopPc = "off"
    /\ loopStart = 0
    /\ loopNum = 0
    /\ loopDigits = <<>>

(***************************************************************************)
(* State: one BlockchainScreen, its MockBlockchain and the block storage   *)
(***************************************************************************)
VARIABLES
    chainBlocks,     \* blockchain.blocks of the mounted screen
    chainStorage,    \* the blocks saved under STORAGE_KEYS.BLOCKCHAIN_BLOCKS
    chainGenerator,  \* the screen's LimnusSpiralGenerator
    chainHandlers,   \* per invocation of handleRecordOnBlockchain: where it
                     \* is and the block it is adding
    chainLoading,    \* the loading state, and the value the button was
                     \* last rendered with
    chainLoaded      \* number of blocks the screen loaded from storage

chainVars == <<chainBlocks, chainStorage, chainGenerator, chainHandlers,
               chainLoading, chainLoaded>>

HandlerIds == {1, 2}

NoBlock == [hash |-> <<>>, previousHash |-> <<>>, node |-> -1]

IdleHandler == [pc |-> "idle", block |-> NoBlock]

ChainOff ==
    /\ chainBlocks = <<>>
    /\ chainStorage = <<>>
    /\ chainGenerator = NoGenerator
    /\ chainHandlers = [h \in HandlerIds |-> IdleHandler]
    /\ chainLoading = [state |-> FALSE, rendered |-> FALSE]
    /\ chainLoaded = 0

\* the monitoring of useConsciousness: the provider is mounted or not;
\* intervalRef holds Null or the id setInterval returned; timers is the set of
\* interval ids registered with the host and not cleared; nextTimer is the id
\* the next setInterval returns; isActive and validationStatus are the state
\* values after the queued updates; ticks counts the runs of the interval
\* callback; lastCall is the last operation and monitorCalls counts the
\* calls of the three operations
VARIABLES providerMounted, intervalRef, timers, nextTimer, isActive,
          validationStatus, ticks, lastCall, monitorCalls

monitorVars == <<providerMounted, intervalRef, timers, nextTimer, isActive,
                 validationStatus, ticks, lastCall, monitorCalls>>

\* no provider
MonitorOff ==
    /\ providerMounted = FALSE
    /\ intervalRef = Null
    /\ timers = {}
    /\ nextTimer = 0
    /\ isActive = FALSE
    /\ validationStatus = "off"
    /\ ticks = 0
    /\ lastCall = [op |-> "off", early |-> FALSE]
    /\ monitorCalls = 0

\* the parts of the application beyond the codec, the generator and the
\* component instances
appVars == <<nodeVars, freqVars, reducerVars, sigilVars, loopVars, chainVars, monitorVars>>

coreVars == <<codecVars, spiralVars, consumerVars>>

\* everything but the variables of the node generation
notNodeVars == <<coreVars, freqVars, reducerVars, sigilVars, loopVars, chainVars, monitorVars>>

\* everything but freqVars
notFreqVars == <<coreVars, nodeVars, reducerVars, sigilVars, loopVars, chainVars, monitorVars>>

\* everything but reducerVars
notReducerVars == <<coreVars, nodeVars, freqVars, sigilVars, loopVars, chainVars, monitorVars>>

\* everything but sigilVars
notSigilVars == <<coreVars, nodeVars, freqVars, reducerVars, loopVars, chainVars, monitorVars>>

\* everything but loopVars
notLoopVars == <<coreVars, nodeVars, freqVars, reducerVars, sigilVars, chainVars, monitorVars>>

\* everything but chainVars
notChainVars == <<coreVars, nodeVars, freqVars, reducerVars, sigilVars, loopVars, monitorVars>>

\* everything but monitorVars
notMonitorVars == <<coreVars, nodeVars, freqVars, reducerVars, sigilVars, loopVars, chainVars>>

vars == <<coreVars, appVars>>

NoFields == [kind |-> "none"]

NodesOff ==
    /\ nodePc = "off"
    /\ nodeClass = "none"
    /\ nodeI1 = 0
    /\ nodeI2 = 0
    /\ nodeA = NoFields
    /\ nodeB = NoFields

AppOff == NodesOff /\ FrequenciesOff /\ ReducerOff /\ SigilOff /\ LoopOff /\ ChainOff /\ MonitorOff

NoCall == [name |-> "none", args |-> <<>>]

\* component instances of the model
ConsumerIds == {1, 2}

\* identities of generator objects: the one of initialState and at most one
\* more per component instance
ObjectIds == 1..(Cardinality(ConsumerIds) + 1)

NoConsumer == [screen |-> "none", ref |-> 0, pending |-> 0, advanced |-> FALSE]

\* no component is running
ConsumersOff ==
    /\ heap = [o \in ObjectIds |-> NoGenerator]
    /\ consumers = [c \in ConsumerIds |-> NoConsumer]
    /\ advanceCalls = [o \in ObjectIds |-> 0]

\* no generator exists
SpiralOff ==
    /\ gstate = "off"
    /\ variant = "none"
    /\ spiralNodes = 0
    /\ generator = NoGenerator
    /\ call = NoCall
    /\ returned = NoValue
    /\ raised = "none"
    /\ advances = 0

NoValidation == [isValid |-> FALSE, error |-> "unset"]

\* largest value of n balanced-ternary digits, (3^n - 1) / 2
RECURSIVE MaxOfLength(_)
MaxOfLength(n) == IF n = 0 THEN 0 ELSE 3 * MaxOfLength(n - 1) + 1

\* the encoder is exercised one past the span of MaxLen digits on both sides
Decimals == (-(MaxOfLength(MaxLen) + 1))..(MaxOfLength(MaxLen) + 1)

\* the arguments of the call are drawn here; nothing has run yet
Init ==
    /\ pc = "call"
    /\ op \in {"encode", "decode", "validate"}
    /\ IF op = "encode"
       THEN /\ decimal \in Decimals
            /\ length \in 1..MaxLen
            /\ input = <<>>
       ELSE /\ decimal = 0
            /\ length = CODE_LENGTH
            /\ input \in Strings
    /\ encoded = <<>>
    /\ decoded = 0
    /\ validation = NoValidation
    /\ thrown = "none"
    /\ SpiralOff
    /\ ConsumersOff
    /\ AppOff

\* the call decimalToBalancedTernary(decimal); the function has no throw
\* statement and no operation in it can raise
Encode ==
    /\ pc = "call" /\ op = "encode"
    /\ encoded' = decimalToBalancedTernary(decimal)
    /\ thrown' = "none"
    /\ pc' = "done"
    /\ UNCHANGED <<op, decimal, length, input, decoded, validation>>
    /\ UNCHANGED <<spiralVars, consumerVars, appVars>>

\* the call balancedTernaryToDecimal(input); it has no throw statement
\* either, a character missing from DIGIT_MAP counts as 0
Decode ==
    /\ pc = "call" /\ op = "decode"
    /\ decoded' = balancedTernaryToDecimal(input)
    /\ thrown' = "none"
    /\ pc' = "done"
    /\ UNCHANGED <<op, decimal, length, input, encoded, validation>>
    /\ UNCHANGED <<spiralVars, consumerVars, appVars>>

\* the call validateTernaryInput(input); every path returns an object
Validate ==
    /\ pc = "call" /\ op = "validate"
    /\ validation' = validateTernaryInput(input)
    /\ thrown' = "none"
    /\ pc' = "done"
    /\ UNCHANGED <<op, decimal, length, input, encoded, decoded>>
    /\ UNCHANGED <<spiralVars, consumerVars, appVars>>

Next ==
    \/ Encode
    \/ Decode
    \/ Validate

Spec == Init /\ [][Next]_vars


(***************************************************************************)
(* The generator's life: construction, then any sequence of method calls   *)
(***************************************************************************)
\* largest number of advance() calls followed on one generator
MaxAdvances == 205
\* largest configured node count tried when the count is an input
MaxConfigured == 4

\* arguments the methods are called with
GetNodeArgs == {-101, -1, 0, 1, 99, 100, 201}
InfluenceDepths == {0, 1}
Influences == {0, 1}
VisualizationCounts == {1, 3}

\* no codec call is in progress
CodecOff ==
    /\ pc = "off"
    /\ op = "none"
    /\ decimal = 0
    /\ length = CODE_LENGTH
    /\ input = <<>>
    /\ encoded = <<>>
    /\ decoded = 0
    /\ validation = NoValidation
    /\ thrown = "none"

\* the node count each module configures
ConfiguredCount(v) == IF v = "constants" THEN SPIRAL_NODES ELSE TPHI10_SPIRAL_NODES

\* a generator of either class is about to be constructed
InitSpiral ==
    /\ CodecOff
    /\ ConsumersOff
    /\ AppOff
    /\ gstate = "new"
    /\ variant \in {"constants", "tphi10"}
    /\ spiralNodes = ConfiguredCount(variant)
    /\ generator = NoGenerator
    /\ call = NoCall
    /\ returned = NoValue
    /\ raised = "none"
    /\ advances = 0

\* the same with the configured node count as an input
InitGenerate ==
    /\ CodecOff
    /\ ConsumersOff
    /\ AppOff
    /\ gstate = "new"
    /\ variant \in {"constants", "tphi10"}
    /\ spiralNodes \in (-2)..MaxConfigured
    /\ generator = NoGenerator
    /\ call = NoCall
    /\ returned = NoValue
    /\ raised = "none"
    /\ advances = 0

\* the outcome r of the method name(args) becomes the state
Outcome(name, args, r) ==
    /\ generator' = r.generator
    /\ returned' = r.value
    /\ raised' = r.thrown
    /\ call' = [name |-> name, args |-> args]

\* new LimnusSpiralGenerator(): neither constructor has a throw statement
Construct ==
    /\ gstate = "new"
    /\ gstate' = "ready"
    /\ generator' = NewGenerator(variant, spiralNodes)
    /\ call' = [name |-> "constructor", args |-> <<>>]
    /\ returned' = NoValue
    /\ raised' = "none"
    /\ advances' = 0
    /\ UNCHANGED <<variant, spiralNodes>>
    /\ UNCHANGED <<codecVars, consumerVars, appVars>>

GetCurrentNode ==
    /\ gstate = "ready"
    /\ Outcome("getCurrentNode", <<>>, getCurrentNode(generator))
    /\ UNCHANGED <<gstate, variant, spiralNodes, advances>>
    /\ UNCHANGED <<codecVars, consumerVars, appVars>>

Advance ==
    /\ gstate = "ready"
    /\ advances < MaxAdvances
    /\ Outcome("advance", <<>>, advance(generator))
    /\ advances' = advances + 1
    /\ UNCHANGED <<gstate, variant, spiralNodes>>
    /\ UNCHANGED <<codecVars, consumerVars, appVars>>

GetNode(index) ==
    /\ gstate = "ready"
    /\ variant = "tphi10"
    /\ Outcome("getNode", <<index>>, getNode(generator, index))
    /\ UNCHANGED <<gstate, variant, spiralNodes, advances>>
    /\ UNCHANGED <<codecVars, consumerVars, appVars>>

UpdateBlockchainInfluence(depth, influence) ==
    /\ gstate = "ready"
    /\ variant = "tphi10"
    /\ Outcome("updateBlockchainInfluence", <<depth, influence>>,
               updateBlockchainInfluence(generator, depth, influence))
    /\ UNCHANGED <<gstate, variant, spiralNodes, advances>>
    /\ UNCHANGED <<codecVars, consumerVars, appVars>>

GetTotalNodes ==
    /\ gstate = "ready"
    /\ variant = "tphi10"
    /\ Outcome("getTotalNodes", <<>>, getTotalNodes(generator))
    /\ UNCHANGED <<gstate, variant, spiralNodes, advances>>
    /\ UNCHANGED <<codecVars, consumerVars, appVars>>

GetVisualizationNodes(count) ==
    /\ gstate = "ready"
    /\ variant = "tphi10"
    /\ Outcome("getVisualizationNodes", <<count>>,
               getVisualizationNodes(generator, count))
    /\ UNCHANGED <<gstate, variant, spiralNodes, advances>>
    /\ UNCHANGED <<codecVars, consumerVars, appVars>>

NextSpiral ==
    \/ Construct
    \/ GetCurrentNode
    \/ Advance
    \/ \E index \in GetNodeArgs : GetNode(index)
    \/ \E depth \in InfluenceDepths, influence \in Influences :
           UpdateBlockchainInfluence(depth, influence)
    \/ GetTotalNodes
    \/ \E count \in VisualizationCounts : GetVisualizationNodes(count)

SpecSpiral == InitSpiral /\ [][NextSpiral]_vars

SpecGenerate == InitGenerate /\ [][NextSpiral]_vars

(***************************************************************************)
(* Component instances and their generators                                *)
(*                                                                         *)
(* TPhi10NeuralLimnus keeps its generator in the reducer state, which      *)
(* starts as the module-level object initialState; BlockchainScreen keeps  *)
(* its own in a ref.  A step is one callback of the host's event loop,     *)
(* which runs to completion: advance() has no await in it.                 *)
(***************************************************************************)
\* largest number of advance() calls on the live generator objects together
MaxAdvanceCalls == 101
\* largest number of handleRecordOnBlockchain invocations awaiting addBlock
MaxPending == 2

RECURSIVE SumCalls(_, _)
SumCalls(calls, ids) ==
    IF ids = {} THEN 0
    ELSE LET o == CHOOSE x \in ids : TRUE
         IN  calls[o] + SumCalls(calls, ids \ {o})

\* advance() calls made on the live objects, and handlers that will make one
CallsSoFar ==
    SumCalls(advanceCalls, ObjectIds)
        + SumCalls([c \in ConsumerIds |-> consumers[c].pending], ConsumerIds)

Live(o) == heap[o] # NoGenerator

\* the identity a newly constructed object gets
FreshId == CHOOSE o \in ObjectIds : ~Live(o) /\ \A p \in ObjectIds : p < o => Live(p)

\* the module of TPhi10NeuralLimnus has been loaded: initialState holds
\* object 1, a generator of the TPhi10 class
InitConsumers ==
    /\ CodecOff
    /\ SpiralOff
    /\ AppOff
    /\ heap = [o \in ObjectIds |->
                 IF o = 1 THEN NewGenerator("tphi10", TPHI10_SPIRAL_NODES)
                 ELSE NoGenerator]
    /\ advanceCalls = [o \in ObjectIds |-> 0]
    /\ consumers = [c \in ConsumerIds |-> NoConsumer]

\* useReducer(appReducer, initialState): the instance starts from the
\* module-level state and so from its generator
MountTPhi10(c) ==
    /\ consumers[c].screen = "none"
    /\ consumers' = [consumers EXCEPT ![c] =
                        [screen |-> "tphi10", ref |-> 1, pending |-> 0,
                         advanced |-> FALSE]]
    /\ UNCHANGED <<heap, advanceCalls>>
    /\ UNCHANGED <<codecVars, spiralVars, appVars>>

\* useRef(new LimnusSpiralGenerator()).current of BlockchainScreen
MountBlockchainScreen(c) ==
    /\ consumers[c].screen = "none"
    /\ heap' = [heap EXCEPT ![FreshId] = NewGenerator("constants", SPIRAL_NODES)]
    /\ consumers' = [consumers EXCEPT ![c] =
                        [screen |-> "blockchain", ref |-> FreshId, pending |-> 0,
                         advanced |-> FALSE]]
    /\ UNCHANGED advanceCalls
    /\ UNCHANGED <<codecVars, spiralVars, appVars>>

\* the advance of generator object o, by instance c
AdvanceObject(c, o) ==
    LET r == advance(heap[o])
    IN  /\ heap' = [heap EXCEPT ![o] = r.generator]
        /\ advanceCalls' = [advanceCalls EXCEPT ![o] = @ + 1]
        /\ consumers' = [consumers EXCEPT
                            ![c].advanced = TRUE,
                            ![c].pending = IF consumers[c].screen = "blockchain"
                                           THEN @ - 1 ELSE @]

\* appReducer, case LIMNUS_ADVANCE_SPIRAL: state.spiralGenerator.advance()
\* on the generator of the instance's state, mutated in place
DispatchAdvanceSpiral(c) ==
    /\ consumers[c].screen = "tphi10"
    /\ CallsSoFar < MaxAdvanceCalls
    /\ AdvanceObject(c, consumers[c].ref)
    /\ UNCHANGED <<codecVars, spiralVars, appVars>>

\* handleRecordOnBlockchain up to its await of blockchain.addBlock
\* (the button is disabled only once the loading state has rendered, so a
\* second press can start a second handler)
RecordStart(c) ==
    /\ consumers[c].screen = "blockchain"
    /\ consumers[c].pending < MaxPending
    /\ CallsSoFar < MaxAdvanceCalls
    /\ consumers' = [consumers EXCEPT ![c].pending = @ + 1]
    /\ UNCHANGED <<heap, advanceCalls>>
    /\ UNCHANGED <<codecVars, spiralVars, appVars>>

\* handleRecordOnBlockchain after the await: spiralGenerator.advance()
RecordAdvance(c) ==
    /\ consumers[c].screen = "blockchain"
    /\ consumers[c].pending > 0
    /\ AdvanceObject(c, consumers[c].ref)
    /\ UNCHANGED <<codecVars, spiralVars, appVars>>

\* LIMNUS_RESET, which gives one instance a new generator, is not a step of
\* this specification
NextConsumers ==
    \/ \E c \in ConsumerIds : MountTPhi10(c)
    \/ \E c \in ConsumerIds : MountBlockchainScreen(c)
    \/ \E c \in ConsumerIds : DispatchAdvanceSpiral(c)
    \/ \E c \in ConsumerIds : RecordStart(c)
    \/ \E c \in ConsumerIds : RecordAdvance(c)

SpecConsumers == InitConsumers /\ [][NextConsumers]_vars

(***************************************************************************)
(* The fields of the generated nodes                                       *)
(*                                                                         *)
(* A double is modelled by what the computation fixes of it:               *)
(*   [kind |-> "zero"]               the double 0                          *)
(*   [kind |-> "exp", arg |-> a]     Math.exp(a / 100), a positive double  *)
(*   [kind |-> "upto", bound |-> b]  a double d with 0 <= d <= b / 1000    *)
(* and a radius by its value in thousandths, rounded down.                 *)
(***************************************************************************)
\* Math.exp returns 0 for arguments below this one (in hundredths)
EXP_UNDERFLOW == -74514

Zero == [kind |-> "zero"]

\* Math.exp(arg / 100)
MathExp(arg) ==
    IF arg < EXP_UNDERFLOW THEN Zero ELSE [kind |-> "exp", arg |-> arg]

RECURSIVE SqrtIter(_, _)
SqrtIter(n, x) ==
    LET y == (x + (n \div x)) \div 2
    IN  IF y >= x THEN x ELSE SqrtIter(n, y)

\* Math.sqrt(n) rounded down, n >= 0
IntSqrt(n) == IF n = 0 THEN 0 ELSE SqrtIter(n, n)

\* r = Math.sqrt(i) * 10, in thousandths
RadiusCycled(i) == IntSqrt((i % 10) * 1000000) * 10

Radius(i) == IntSqrt(i * 1000000) * 10

\* quantum_factor = Math.exp(-i * CONFIG.LIMNUS.QUANTUM_DAMPENING)
QuantumFactor(i) == MathExp(-(i * 15))

\* one entry of nodes as generateNodes pushes it (constants/limnus.ts)
SpiralNode(i) ==
    [kind |-> "SpiralNode", index |-> i, r |-> Radius(i),
     quantum_factor |-> QuantumFactor(i)]

\* the Lucas number L(n), cut off near 100000: phi^n > L(n) - 1 for even n
RECURSIVE LucasFrom(_, _, _)
LucasFrom(n, a, b) ==
    IF n = 0 THEN a
    ELSE IF a >= 100000 THEN 100000
    ELSE LucasFrom(n - 1, b, a + b)

Lucas(n) == LucasFrom(n, 2, 1)

\* a lower bound of r_squared = x_phi * x_phi + y_phi * y_phi, which is
\* phi_n * phi_n = PHI^(2i) up to rounding
RSquaredLowerBound(i) == Lucas(2 * i) - 1

\* exp_factor = Math.exp(-r_squared / (2 * sigma_t * sigma_t)) with
\* 1.2 <= sigma_t <= 1.8: the argument is at most -r_squared / 6.48, and
\* the result is 0 once that is below Math.exp's underflow
ExpFactor(i) ==
    IF -((RSquaredLowerBound(i) * 10000) \div 648) < EXP_UNDERFLOW
    THEN Zero
    ELSE [kind |-> "upto", bound |-> 1000]

\* A_collapse = 1.0 - i * QUANTUM_DAMPENING and A_bloom = 0.7 + i * 0.008,
\* in thousandths
A_collapse(i) == 1000 - (i * 150)
A_bloom(i) == 700 + (i * 8)

Max0(x) == IF x > 0 THEN x ELSE 0

\* quantum_factor = (psi_collapse + psi_bloom) / 2 with
\* psi = Math.max(0, A * exp_factor)
Tphi10QuantumFactor(i) ==
    IF ExpFactor(i) = Zero THEN Zero
    ELSE [kind |-> "upto", bound |-> (Max0(A_collapse(i)) + Max0(A_bloom(i))) \div 2]

\* one entry of nodes as generateInitialNodes pushes it (TPhi10)
LimnusNode(i) ==
    [kind |-> "LimnusNode", depth |-> i, quantum_factor |-> Tphi10QuantumFactor(i)]

\* the node of index i of a newly constructed generator of the class
GeneratedNode(class, i) ==
    IF class = "constants" THEN SpiralNode(i) ELSE LimnusNode(i)

\* number of nodes a newly constructed generator of the class holds
GeneratedCount(class) ==
    Len(NewGenerator(class, IF class = "constants" THEN SPIRAL_NODES
                            ELSE TPHI10_SPIRAL_NODES).nodes)

(***************************************************************************)
(* Node generation: a generator is constructed and two of its nodes read   *)
(***************************************************************************)
InitNodes ==
    /\ CodecOff
    /\ SpiralOff
    /\ ConsumersOff
    /\ FrequenciesOff
    /\ ReducerOff
    /\ SigilOff
    /\ LoopOff
    /\ ChainOff
    /\ nodePc = "call"
    /\ nodeClass \in {"constants", "tphi10"}
    /\ nodeI1 \in 0..(GeneratedCount(nodeClass) - 1)
    /\ nodeI2 \in 0..(GeneratedCount(nodeClass) - 1)
    /\ nodeA = NoFields
    /\ nodeB = NoFields
    /\ MonitorOff

\* new LimnusSpiralGenerator(): the generation loop
GenerateNodes ==
    /\ nodePc = "call"
    /\ nodePc' = "done"
    /\ nodeA' = GeneratedNode(nodeClass, nodeI1)
    /\ nodeB' = GeneratedNode(nodeClass, nodeI2)
    /\ UNCHANGED <<nodeClass, nodeI1, nodeI2>>
    /\ UNCHANGED notNodeVars

NextNodes == GenerateNodes

SpecNodes == InitNodes /\ [][NextNodes]_vars

(***************************************************************************)
(* PersonalSigilGenerator.mapFrequenciesToTernary                          *)
(*                                                                         *)
(* The frequencies are integers (extractDominantFrequencies rounds them);  *)
(* the weights PHI^index and the sum are kept in thousandths.              *)
(***************************************************************************)
RECURSIVE FibonacciFrom(_, _, _)
FibonacciFrom(n, a, b) == IF n = 0 THEN a ELSE FibonacciFrom(n - 1, b, a + b)

Fibonacci(n) == FibonacciFrom(n, 0, 1)

\* Math.pow(phi, index) in thousandths: PHI^n = (L(n) + F(n) * sqrt(5)) / 2
PhiPower(index) == (Lucas(index) * 1000 + Fibonacci(index) * 2236) \div 2

\* the forEach loop: ternaryValue += freq * weight
RECURSIVE WeightedSum(_, _)
WeightedSum(freqs, index) ==
    IF index >= Len(freqs) THEN 0
    ELSE freqs[index + 1] * PhiPower(index) + WeightedSum(freqs, index + 1)

\* Math.round of a value in thousandths: halves go up
MathRound(x) == (x + 500) \div 1000

\* Math.round((ternaryValue % 243) - 121)
NormalizedValue(freqs) == MathRound(JsRem(WeightedSum(freqs, 0), 243000) - 121000)

mapFrequenciesToTernary(freqs) == decimalToBalancedTernary(NormalizedValue(freqs))

\* largest number of frequencies in one call
MaxFrequencies == 3

\* the default Fibonacci frequencies, and values that bring the sum near 243
FrequencyValues == {0, 1, 8, 13, 21, 34, 241}

RECURSIVE SeqsUpTo(_, _)
SeqsUpTo(S, n) ==
    IF n = 0 THEN {<<>>}
    ELSE LET shorter == SeqsUpTo(S, n - 1)
         IN  shorter \cup {Append(s, x) : s \in {q \in shorter : Len(q) = n - 1}, x \in S}

InitFrequencies ==
    /\ CodecOff
    /\ SpiralOff
    /\ ConsumersOff
    /\ NodesOff
    /\ ReducerOff
    /\ SigilOff
    /\ LoopOff
    /\ ChainOff
    /\ freqPc = "call"
    /\ frequencies \in SeqsUpTo(FrequencyValues, MaxFrequencies)
    /\ normalizedValue = 0
    /\ ternaryCode = <<>>
    /\ MonitorOff

\* the call mapFrequenciesToTernary(frequencies)
MapFrequenciesToTernary ==
    /\ freqPc = "call"
    /\ freqPc' = "done"
    /\ normalizedValue' = NormalizedValue(frequencies)
    /\ ternaryCode' = mapFrequenciesToTernary(frequencies)
    /\ UNCHANGED frequencies
    /\ UNCHANGED notFreqVars

NextFrequencies == MapFrequenciesToTernary

SpecFrequencies == InitFrequencies /\ [][NextFrequencies]_vars

(***************************************************************************)
(* appReducer, case LIMNUS_ADVANCE_SPIRAL                                  *)
(*                                                                         *)
(* The host may evaluate a reducer more than once for one action, each     *)
(* time with the same previous state, and keeps one of the results.  The   *)
(* generator is reached through the state and mutated in place.            *)
(***************************************************************************)
\* largest number of evaluations of the reducer for one action
MaxEvaluations == 2

\* one evaluation: newNode = state.spiralGenerator.advance(), then the new
\* state object with currentNode and spiralPosition.depth
ReduceAdvanceSpiral(state, g) ==
    LET r == advance(g)
    IN  [state     |-> [state EXCEPT !.currentNode = r.value,
                                     !.depth = r.value.node.index],
         generator |-> r.generator]

\* times evaluations on the same previous state; the result of evaluation
\* number kept is the new state
RECURSIVE EvaluateReducer(_, _, _, _, _)
EvaluateReducer(state, g, times, kept, result) ==
    IF times = 0 THEN [state |-> result, generator |-> g]
    ELSE LET e == ReduceAdvanceSpiral(state, g)
         IN  EvaluateReducer(state, e.generator, times - 1, kept - 1,
                             IF kept = 1 THEN e.state ELSE result)

\* the component is mounted: useReducer(appReducer, initialState)
InitReducer ==
    /\ CodecOff
    /\ SpiralOff
    /\ ConsumersOff
    /\ NodesOff
    /\ FrequenciesOff
    /\ SigilOff
    /\ LoopOff
    /\ ChainOff
    /\ reducerPc = "mounted"
    /\ spiralGenerator = NewGenerator("tphi10", TPHI10_SPIRAL_NODES)
    /\ appState = [currentNode |-> Null, depth |-> 0]
    /\ evaluated = [times |-> 0, kept |-> 0]
    /\ MonitorOff

\* dispatch({ type: 'LIMNUS_ADVANCE_SPIRAL' })
DispatchLimnusAdvanceSpiral(times, kept) ==
    LET e == EvaluateReducer(appState, spiralGenerator, times, kept, appState)
    IN  /\ reducerPc = "mounted"
        /\ spiralGenerator' = e.generator
        /\ appState' = e.state
        /\ evaluated' = [times |-> times, kept |-> kept]
        /\ UNCHANGED reducerPc
        /\ UNCHANGED notReducerVars

NextReducer ==
    \E times \in 1..MaxEvaluations : \E kept \in 1..times :
        DispatchLimnusAdvanceSpiral(times, kept)

SpecReducer == InitReducer /\ [][NextReducer]_vars

(***************************************************************************)
(* createSigilDatabase and handleSigilDecode                               *)
(***************************************************************************)
\* the three sigils written out in the source
LiteralSigils ==
    << [id |-> "nucleus-solitary-tract", ternaryCode |-> <<"T", "T", "T", "T", "T">>,
        decimalValue |-> -121],
       [id |-> "insular-cortex", ternaryCode |-> <<"0", "0", "0", "0", "0">>,
        decimalValue |-> 0],
       [id |-> "whole-brain-integration", ternaryCode |-> <<"1", "1", "1", "1", "1">>,
        decimalValue |-> 121] >>

\* for (let i = -120; i <= 120; i++): the values of i in order
LoopValues == [k \in 1..241 |-> k - 121]

\* if (i === -121 || i === 0 || i === 121) continue
Pushed(i) == ~(i = -121 \/ i = 0 \/ i = 121)

\* the sigils the loop pushes
GeneratedSigils ==
    LET values == SelectSeq(LoopValues, Pushed)
    IN  [k \in 1..Len(values) |->
            [id |-> "sigil", ternaryCode |-> decimalToBalancedTernary(values[k]),
             decimalValue |-> values[k]]]

\* the Map after sigils.forEach(sigil => database.set(sigil.ternaryCode, sigil)):
\* a later sigil replaces an earlier one of the same code
DatabaseOf(sigils) ==
    [key \in {sigils[k].ternaryCode : k \in 1..Len(sigils)} |->
        LET last == CHOOSE k \in 1..Len(sigils) :
                        /\ sigils[k].ternaryCode = key
                        /\ \A j \in (k + 1)..Len(sigils) : sigils[j].ternaryCode # key
        IN  sigils[last]]

createSigilDatabase == DatabaseOf(LiteralSigils \o GeneratedSigils)

\* String.prototype.toUpperCase on the characters of the model
ToUpperCase(s) == [k \in 1..Len(s) |-> IF s[k] = "t" THEN "T" ELSE s[k]]

\* sigilDatabase.get(input): the sigil, or undefined
DatabaseGet(database, key) ==
    IF key \in DOMAIN database THEN [kind |-> "sigil", sigil |-> database[key]]
    ELSE Undefined

handleSigilDecode(database, text) ==
    LET upper == ToUpperCase(text)
        sigil == DatabaseGet(database, upper)
    IN  IF ~VALID_PATTERN(upper)
        THEN [type |-> "SHOW_ALERT", title |-> "Invalid Input"]
        ELSE IF sigil # Undefined
        THEN [type |-> "SET_CURRENT_SIGIL", payload |-> sigil.sigil]
        ELSE [type |-> "SHOW_ALERT", title |-> "Unknown Sigil"]

\* what the user may have typed: every text of 5 characters, and texts of
\* other lengths
SigilInputs ==
    [1..CODE_LENGTH -> {"T", "0", "1", "t", "2"}]
        \cup {<<>>, <<"T", "0", "1", "1">>, <<"T", "0", "1", "1", "0", "T">>}

InitSigil ==
    /\ CodecOff
    /\ SpiralOff
    /\ ConsumersOff
    /\ NodesOff
    /\ FrequenciesOff
    /\ ReducerOff
    /\ LoopOff
    /\ ChainOff
    /\ sigilPc = "load"
    /\ sigilInput \in SigilInputs
    /\ sigilDatabase = <<>>
    /\ sigilOutcome = NoOutcome
    /\ MonitorOff

\* useRef(createSigilDatabase()).current
CreateSigilDatabase ==
    /\ sigilPc = "load"
    /\ sigilPc' = "ready"
    /\ sigilDatabase' = createSigilDatabase
    /\ UNCHANGED <<sigilInput, sigilOutcome>>
    /\ UNCHANGED notSigilVars

\* the decode button: handleSigilDecode()
HandleSigilDecode ==
    /\ sigilPc = "ready"
    /\ sigilPc' = "done"
    /\ sigilOutcome' = handleSigilDecode(sigilDatabase, sigilInput)
    /\ UNCHANGED <<sigilInput, sigilDatabase>>
    /\ UNCHANGED notSigilVars

NextSigil == CreateSigilDatabase \/ HandleSigilDecode

SpecSigil == InitSigil /\ [][NextSigil]_vars

(***************************************************************************)
(* The encode loop, one pass per step                                      *)
(***************************************************************************)
\* largest magnitude of the argument
MaxLoopValue == 200

\* one pass of while (num !== 0): the remainder, the borrow, digits.unshift
EncodePass(num, digits) ==
    LET remainder == (JsRem(num, 3) + 3) % 3
    IN  IF remainder = 2
        THEN [num |-> MathFloorDiv(num, 3) + 1, digits |-> <<"T">> \o digits]
        ELSE [num |-> MathFloorDiv(num, 3),
              digits |-> <<NumToString(remainder)>> \o digits]

\* the function is entered with a nonzero integer, or with 0 for which it
\* returns before the loop
InitLoop ==
    /\ CodecOff
    /\ SpiralOff
    /\ ConsumersOff
    /\ NodesOff
    /\ FrequenciesOff
    /\ ReducerOff
    /\ SigilOff
    /\ ChainOff
    /\ loopStart \in (-MaxLoopValue)..MaxLoopValue
    /\ loopNum = loopStart
    /\ loopDigits = <<>>
    /\ loopPc = "loop"
    /\ MonitorOff

LoopPass ==
    /\ loopPc = "loop"
    /\ loopNum # 0
    /\ loopNum' = EncodePass(loopNum, loopDigits).num
    /\ loopDigits' = EncodePass(loopNum, loopDigits).digits
    /\ UNCHANGED <<loopPc, loopStart>>
    /\ UNCHANGED notLoopVars

\* num === 0: the loop is left (or was never entered)
LoopExit ==
    /\ loopPc = "loop"
    /\ loopNum = 0
    /\ loopPc' = "done"
    /\ UNCHANGED <<loopStart, loopNum, loopDigits>>
    /\ UNCHANGED notLoopVars

NextLoop == LoopPass \/ LoopExit

\* the host runs the loop on: a pass that can be taken is taken
SpecLoop == InitLoop /\ [][NextLoop]_vars /\ WF_vars(NextLoop)

(***************************************************************************)
(* MockBlockchain.addBlock and handleRecordOnBlockchain                    *)
(*                                                                         *)
(* A step is the part of a handler between two awaits.  The hash of a      *)
(* block is a function of its data, which holds the node recorded and a    *)
(* timestamp.  The screen loads the stored blocks when it mounts.          *)
(***************************************************************************)
\* largest number of blocks in one blockchain
MaxBlocks == 3
\* number of times the screen is mounted again
MaxMounts == 1

\* Date.now() as far as it tells the data of two blocks apart
Timestamps == {1, 2}

\* '0'.repeat(16)
GENESIS_HASH == [k \in 1..16 |-> "0"]

\* calculateHash(data): a function of the data
calculateHash(data) == <<data.node, data.timestamp>>

\* previousBlock?.hash || '0'.repeat(16) with
\* previousBlock = this.blocks[this.blocks.length - 1]
PreviousHash(blocks) ==
    IF Len(blocks) = 0 THEN GENESIS_HASH ELSE blocks[Len(blocks)].hash

\* addBlock up to its await: the block object without consensusValidation
NewBlock(blocks, data) ==
    [hash |-> calculateHash(data), previousHash |-> PreviousHash(blocks),
     node |-> data.node]

InFlight == {h \in HandlerIds : chainHandlers[h].pc # "idle"}

\* a screen is mounted over empty storage; the stored blocks are loaded
InitChain ==
    /\ CodecOff
    /\ SpiralOff
    /\ ConsumersOff
    /\ NodesOff
    /\ FrequenciesOff
    /\ ReducerOff
    /\ SigilOff
    /\ LoopOff
    /\ chainBlocks = <<>>
    /\ chainStorage = <<>>
    /\ chainGenerator = NewGenerator("constants", SPIRAL_NODES)
    /\ chainHandlers = [h \in HandlerIds |-> IdleHandler]
    /\ chainLoading = [state |-> FALSE, rendered |-> FALSE]
    /\ chainLoaded = 0
    /\ MonitorOff

\* the button is pressed (it is enabled while rendered with loading false):
\* setLoading(true), then the await of Haptics.impactAsync
Press(h) ==
    /\ chainHandlers[h].pc = "idle"
    /\ ~chainLoading.rendered
    /\ Len(chainBlocks) + Cardinality(InFlight) < MaxBlocks
    /\ chainHandlers' = [chainHandlers EXCEPT ![h].pc = "haptics"]
    /\ chainLoading' = [chainLoading EXCEPT !.state = TRUE]
    /\ UNCHANGED <<chainBlocks, chainStorage, chainGenerator, chainLoaded>>
    /\ UNCHANGED notChainVars

\* the screen renders with the current loading state
Render ==
    /\ chainLoading.rendered # chainLoading.state
    /\ chainLoading' = [chainLoading EXCEPT !.rendered = chainLoading.state]
    /\ UNCHANGED <<chainBlocks, chainStorage, chainGenerator, chainHandlers, chainLoaded>>
    /\ UNCHANGED notChainVars

\* getCurrentNode(), the data, and addBlock up to await validateConsensus
BuildBlock(h, timestamp) ==
    LET currentNode == getCurrentNode(chainGenerator).value
        data == [node |-> currentNode.node.index, timestamp |-> timestamp]
    IN  /\ chainHandlers[h].pc = "haptics"
        /\ chainHandlers' = [chainHandlers EXCEPT
                                ![h] = [pc |-> "consensus",
                                        block |-> NewBlock(chainBlocks, data)]]
        /\ UNCHANGED <<chainBlocks, chainStorage, chainGenerator, chainLoading,
                       chainLoaded>>
        /\ UNCHANGED notChainVars

\* addBlock after the await: this.blocks.push(block), then saveToStorage,
\* whose setItem stores the blocks or fails and is caught
PushBlock(h, saved) ==
    /\ chainHandlers[h].pc = "consensus"
    /\ chainBlocks' = Append(chainBlocks, chainHandlers[h].block)
    /\ chainStorage' = IF saved THEN chainBlocks' ELSE chainStorage
    /\ chainHandlers' = [chainHandlers EXCEPT ![h].pc = "saving"]
    /\ UNCHANGED <<chainGenerator, chainLoading, chainLoaded>>
    /\ UNCHANGED notChainVars

\* addBlock has returned: setBlocks, setLastBlock, spiralGenerator.advance(),
\* then the await of Haptics.notificationAsync
AdvanceAfterBlock(h) ==
    /\ chainHandlers[h].pc = "saving"
    /\ chainGenerator' = advance(chainGenerator).generator
    /\ chainHandlers' = [chainHandlers EXCEPT ![h].pc = "feedback"]
    /\ UNCHANGED <<chainBlocks, chainStorage, chainLoading, chainLoaded>>
    /\ UNCHANGED notChainVars

\* finally: setLoading(false)
Finally(h) ==
    /\ chainHandlers[h].pc = "feedback"
    /\ chainHandlers' = [chainHandlers EXCEPT ![h] = IdleHandler]
    /\ chainLoading' = [chainLoading EXCEPT !.state = FALSE]
    /\ UNCHANGED <<chainBlocks, chainStorage, chainGenerator, chainLoaded>>
    /\ UNCHANGED notChainVars

\* the screen is left and mounted again: a new MockBlockchain and a new
\* generator, and loadBlockchain reads the stored blocks
Remount ==
    /\ InFlight = {}
    /\ chainLoaded < MaxMounts * MaxBlocks
    /\ Len(chainStorage) > chainLoaded
    /\ chainBlocks' = chainStorage
    /\ chainLoaded' = Len(chainStorage)
    /\ chainGenerator' = NewGenerator("constants", SPIRAL_NODES)
    /\ chainLoading' = [state |-> FALSE, rendered |-> FALSE]
    /\ UNCHANGED <<chainStorage, chainHandlers>>
    /\ UNCHANGED notChainVars

NextChain ==
    \/ \E h \in HandlerIds : Press(h)
    \/ Render
    \/ \E h \in HandlerIds : \E timestamp \in Timestamps : BuildBlock(h, timestamp)
    \/ \E h \in HandlerIds : \E saved \in BOOLEAN : PushBlock(h, saved)
    \/ \E h \in HandlerIds : AdvanceAfterBlock(h)
    \/ \E h \in HandlerIds : Finally(h)
    \/ Remount

SpecChain == InitChain /\ [][NextChain]_vars

(***************************************************************************)
(* The monitoring timer of useConsciousness                                *)
(***************************************************************************)
MaxTimers == 3
MaxTicks == 2
MaxMonitorCalls == 5

\* what useRef holds after setInterval returned id
TimerRef(id) == [kind |-> "timer", id |-> id]

\* clearInterval(ref): the host forgets the timer the reference names
clearInterval(registered, ref) ==
    IF ref = Null THEN registered ELSE registered \ {ref.id}

Called(name, early) == [op |-> name, early |-> early]

\* the provider is mounted: useState and useRef initial values
InitMonitor ==
    /\ CodecOff
    /\ SpiralOff
    /\ ConsumersOff
    /\ NodesOff
    /\ FrequenciesOff
    /\ ReducerOff
    /\ SigilOff
    /\ LoopOff
    /\ ChainOff
    /\ providerMounted = TRUE
    /\ intervalRef = Null
    /\ timers = {}
    /\ nextTimer = 1
    /\ isActive = FALSE
    /\ validationStatus = "idle"
    /\ ticks = 0
    /\ lastCall = Called("mount", FALSE)
    /\ monitorCalls = 0

\* startMonitoring without its first line
StartMonitoringUnguarded ==
    /\ providerMounted
    /\ monitorCalls < MaxMonitorCalls
    /\ nextTimer <= MaxTimers
    /\ isActive' = TRUE
    /\ intervalRef' = TimerRef(nextTimer)
    /\ timers' = timers \cup {nextTimer}
    /\ nextTimer' = nextTimer + 1
    /\ lastCall' = Called("startMonitoring", FALSE)
    /\ monitorCalls' = monitorCalls + 1
    /\ UNCHANGED <<providerMounted, validationStatus, ticks>>
    /\ UNCHANGED notMonitorVars

StartMonitoring ==
    /\ providerMounted
    /\ monitorCalls < MaxMonitorCalls
    /\ IF intervalRef # Null
       THEN /\ lastCall' = Called("startMonitoring", TRUE)
            /\ UNCHANGED <<isActive, intervalRef, timers, nextTimer>>
       ELSE /\ nextTimer <= MaxTimers
            /\ isActive' = TRUE
            /\ intervalRef' = TimerRef(nextTimer)
            /\ timers' = timers \cup {nextTimer}
            /\ nextTimer' = nextTimer + 1
            /\ lastCall' = Called("startMonitoring", FALSE)
    /\ monitorCalls' = monitorCalls + 1
    /\ UNCHANGED <<providerMounted, validationStatus, ticks>>
    /\ UNCHANGED notMonitorVars

\* the interval callback of a registered timer: a new signature is generated
\* and validated
Tick ==
    /\ timers # {}
    /\ ticks < MaxTicks
    /\ ticks' = ticks + 1
    /\ validationStatus' \in {"valid", "invalid"}
    /\ UNCHANGED <<providerMounted, intervalRef, timers, nextTimer, isActive,
                   lastCall, monitorCalls>>
    /\ UNCHANGED notMonitorVars

StopMonitoring ==
    /\ providerMounted
    /\ monitorCalls < MaxMonitorCalls
    /\ timers' = clearInterval(timers, intervalRef)
    /\ intervalRef' = Null
    /\ isActive' = FALSE
    /\ lastCall' = Called("stopMonitoring", FALSE)
    /\ monitorCalls' = monitorCalls + 1
    /\ UNCHANGED <<providerMounted, nextTimer, validationStatus, ticks>>
    /\ UNCHANGED notMonitorVars

\* stopMonitoring(), then the state is set back
ResetSystem ==
    /\ providerMounted
    /\ monitorCalls < MaxMonitorCalls
    /\ timers' = clearInterval(timers, intervalRef)
    /\ intervalRef' = Null
    /\ isActive' = FALSE
    /\ validationStatus' = "idle"
    /\ lastCall' = Called("resetSystem", FALSE)
    /\ monitorCalls' = monitorCalls + 1
    /\ UNCHANGED <<providerMounted, nextTimer, ticks>>
    /\ UNCHANGED notMonitorVars

\* the cleanup of the effect: the timer is cleared, the reference is left
Unmount ==
    /\ providerMounted
    /\ providerMounted' = FALSE
    /\ timers' = clearInterval(timers, intervalRef)
    /\ lastCall' = Called("unmount", FALSE)
    /\ UNCHANGED <<intervalRef, nextTimer, isActive, validationStatus, ticks,
                   monitorCalls>>
    /\ UNCHANGED notMonitorVars

\* the provider is mounted again: new state and a new reference, the host's
\* timer ids go on
Mount ==
    /\ ~providerMounted
    /\ providerMounted' = TRUE
    /\ intervalRef' = Null
    /\ isActive' = FALSE
    /\ validationStatus' = "idle"
    /\ lastCall' = Called("mount", FALSE)
    /\ UNCHANGED <<timers, nextTimer, ticks, monitorCalls>>
    /\ UNCHANGED notMonitorVars

NextMonitor ==
    \/ StartMonitoring
    \/ Tick
    \/ StopMonitoring
    \/ ResetSystem
    \/ Unmount
    \/ Mount

SpecMonitor == InitMonitor /\ [][NextMonitor]_vars

(***************************************************************************)
(* Vocabulary of the properties                                            *)
(***************************************************************************)
Digits == {"T", "0", "1"}

\* every character of s is a balanced-ternary digit
WellFormed(s) == \A i \in 1..Len(s) : s[i] \in Digits

\* n copies of the character c
Repeat(c, n) == [i \in 1..n |-> c]

\* v lies in the span of n digits, -(3^n - 1)/2 .. (3^n - 1)/2
InSpan(v, n) == -MaxOfLength(n) <= v /\ v <= MaxOfLength(n)

RECURSIVE Pow3(_)
Pow3(k) == IF k = 0 THEN 1 ELSE 3 * Pow3(k - 1)

ValueOfDigit(c) == IF c = "T" THEN -1 ELSE IF c = "1" THEN 1 ELSE 0

\* sum of digit_k * 3^k over the positions k = n-1 .. 0 counted from the right
RECURSIVE PositionalSum(_, _)
PositionalSum(s, n) ==
    IF n = 0
    THEN 0
    ELSE ValueOfDigit(s[Len(s) - (n - 1)]) * Pow3(n - 1) + PositionalSum(s, n - 1)

Encoded == pc = "done" /\ op = "encode"
Decoded == pc = "done" /\ op = "decode"
Validated == pc = "done" /\ op = "validate"

(***************************************************************************)
(* Properties                                                              *)
(***************************************************************************)

\* C1: for every length L in 1..MaxLen and every integer v in the span of L
\* digits, decoding the string the encoder returned for v gives v back.
RoundTripInteger ==
    (Encoded /\ InSpan(decimal, length))
        => balancedTernaryToDecimal(encoded) = decimal

RoundTripIntegerWitness ==
    /\ Encoded
    /\ length = MaxLen
    /\ decimal = -MaxOfLength(MaxLen)
    /\ balancedTernaryToDecimal(encoded) = decimal

\* C2 as stated: for every length L >= 1 and every well-formed string s of
\* L characters, encoding the decoded value returns s itself.
StringRoundTripAnyLength ==
    (Decoded /\ Len(input) >= 1 /\ WellFormed(input))
        => decimalToBalancedTernary(decoded) = input

\* C2 amended: for every well-formed string s of exactly CODE_LENGTH = 5
\* characters, encoding the decoded value returns s itself.
StringRoundTripCodeLength ==
    (Decoded /\ Len(input) = CODE_LENGTH /\ WellFormed(input))
        => decimalToBalancedTernary(decoded) = input

StringRoundTripWitness ==
    /\ Decoded
    /\ input = <<"T", "T", "1", "T", "1">>
    /\ decoded = -101
    /\ decimalToBalancedTernary(decoded) = input

EncodeOutOfRangeRaises ==
    (Encoded /\ length = CODE_LENGTH /\ ~InSpan(decimal, length))
        => thrown = "InvalidRange" /\ encoded = <<>>

\* C5: a decode call on a string with a character outside {T,0,1} raises
\* InvalidCharacter instead of returning an integer.
DecodeBadCharacterRaises ==
    (Decoded /\ ~WellFormed(input)) => thrown = "InvalidCharacter"

ZeroCaseAnyLength ==
    (Encoded /\ decimal = 0) => encoded = Repeat("0", length)

\* C7 amended: the encoder returns CODE_LENGTH = 5 copies of '0' for the
\* value 0, whatever digit count the caller has in mind.
ZeroCaseCodeLength ==
    (Encoded /\ decimal = 0) => encoded = Repeat("0", CODE_LENGTH)

ZeroCaseWitness ==
    /\ Encoded
    /\ decimal = 0
    /\ length = CODE_LENGTH
    /\ encoded = <<"0", "0", "0", "0", "0">>

\* C8 as stated: for every length L the largest value of L digits encodes
\* to L copies of '1' and the smallest to L copies of 'T'.
RangeBoundaryAnyLength ==
    Encoded
        => /\ decimal = MaxOfLength(length) => encoded = Repeat("1", length)
           /\ decimal = -MaxOfLength(length) => encoded = Repeat("T", length)

\* C8 amended: for every length L >= CODE_LENGTH = 5 the largest value of L
\* digits encodes to L copies of '1' and the smallest to L copies of 'T'
\* (121 -> 11111, -121 -> TTTTT); for shorter L the digits are left-padded
\* with '0' to 5 characters.
RangeBoundaryFromCodeLength ==
    (Encoded /\ length >= CODE_LENGTH)
        => /\ decimal = MaxOfLength(length) => encoded = Repeat("1", length)
           /\ decimal = -MaxOfLength(length) => encoded = Repeat("T", length)
           /\ decimal = 121 => encoded = <<"1", "1", "1", "1", "1">>
           /\ decimal = -121 => encoded = <<"T", "T", "T", "T", "T">>

RangeBoundaryWitness ==
    /\ Encoded
    /\ length = CODE_LENGTH
    /\ decimal = MIN_VALUE
    /\ encoded = <<"T", "T", "T", "T", "T">>

\* C9: the decoder returns, for a well-formed string of any length, the sum
\* of digit_k * 3^k over the positions k counted from the rightmost
\* character; 00000 gives 0, 11111 gives 121, TTTTT gives -121.
DecodePositional ==
    (Decoded /\ WellFormed(input))
        => /\ decoded = PositionalSum(input, Len(input))
           /\ input = <<"0", "0", "0", "0", "0">> => decoded = 0
           /\ input = <<"1", "1", "1", "1", "1">> => decoded = 121
           /\ input = <<"T", "T", "T", "T", "T">> => decoded = -121

DecodePositionalWitness ==
    /\ Decoded
    /\ input = <<"1", "T", "0", "T", "1">>
    /\ decoded = 52

\* C10: a well-formed string of L characters decodes into the span of L
\* digits, and no other well-formed string of L characters decodes to the
\* same integer.
DecodeUnique ==
    (Decoded /\ WellFormed(input))
        => /\ InSpan(decoded, Len(input))
           /\ \A t \in [1..Len(input) -> Digits] :
                  t # input => balancedTernaryToDecimal(t) # decoded

DecodeUniqueWitness ==
    /\ Decoded
    /\ Len(input) = CODE_LENGTH
    /\ WellFormed(input)
    /\ decoded = MAX_VALUE

\* the string s with every T replaced by 1 and every 1 by T
NegateDigits(s) ==
    [i \in 1..Len(s) |-> IF s[i] = "T" THEN "1" ELSE IF s[i] = "1" THEN "T" ELSE s[i]]

\* C11: for every integer v in the span of L digits, L in 1..MaxLen, the
\* code of -v is the code of v with every T replaced by 1 and every 1
\* replaced by T, 0 unchanged.
NegationSymmetry ==
    (Encoded /\ InSpan(decimal, length))
        => decimalToBalancedTernary(-decimal) = NegateDigits(encoded)

NegationSymmetryWitness ==
    /\ Encoded
    /\ length = CODE_LENGTH
    /\ decimal = 5
    /\ encoded = <<"0", "0", "1", "T", "T">>
    /\ decimalToBalancedTernary(-decimal) = <<"0", "0", "T", "1", "1">>

(***************************************************************************)
(* Properties of the generator                                             *)
(***************************************************************************)
Ready == gstate = "ready"

\* number of nodes of the generator
N == Len(generator.nodes)

\* i mod n with the result in 0 .. n-1 for every integer i
FloorMod(i, n) == i % n

\* the value current() returns in this state
Current == getCurrentNode(generator).value

\* node(i) as the object g hands it out: the array entry in
\* constants/limnus.ts, getNode(i) in TPhi10
NodeAt(g, i) ==
    IF g.variant = "tphi10" THEN getNode(g, i).value ELSE ArrayGet(g.nodes, i)

FullWraparound ==
    Ready =>
        /\ generator.currentIndex = FloorMod(advances, N)
        /\ advances = N => (Current = NodeAt(generator, 0) /\ Current.node.index = 0)
        /\ advances < MaxAdvances => ENABLED Advance

FullWraparoundWitness ==
    /\ Ready
    /\ variant = "constants"
    /\ call.name = "advance"
    /\ advances = SPIRAL_NODES
    /\ generator.currentIndex = 0
    /\ Current = NodeValue(Node(0))

\* C14: in every state of a constructed generator currentIndex is an
\* integer with 0 <= currentIndex < N and current() returns a node.
CursorInvariant ==
    Ready =>
        /\ generator.currentIndex \in 0..(N - 1)
        /\ Current.kind = "node"
        /\ getCurrentNode(generator).thrown = "none"

CursorInvariantWitness ==
    /\ Ready
    /\ call.name = "getCurrentNode"
    /\ generator.currentIndex = N - 1
    /\ advances = 2 * N - 1
    /\ returned = NodeValue(Node(N - 1))

\* C15: seek(index), here getNode(index), sets currentIndex to index mod N
\* normalized into [0, N) for every integer index, negative ones included,
\* and returns node(currentIndex); it never yields an undefined node.
SeekContract ==
    (Ready /\ call.name = "getNode") =>
        /\ raised = "none"
        /\ generator.currentIndex = FloorMod(call.args[1], N)
        /\ returned.kind = "node"
        /\ returned.node.index = generator.currentIndex

\* C16: constructing a generator with a configured node count N <= 0 fails
\* with InvalidConfiguration, and no generator with an empty node sequence
\* is ever produced.
GenerateRejectsNonPositive ==
    /\ (call.name = "constructor" /\ spiralNodes <= 0)
           => (raised = "InvalidConfiguration" /\ ~Ready)
    /\ Ready => N > 0

\* C17: after construction and after any sequence of method calls the
\* generator holds exactly as many nodes as its module configures
\* (SPIRAL_NODES), and the entry at position i carries index i.
NodesMatchConfiguredCount ==
    Ready =>
        /\ N = spiralNodes
        /\ \A i \in 0..(N - 1) : generator.nodes[i + 1].index = i

\* the stored nodes are the nodes as generated
NodesAsGenerated ==
    Ready => \A i \in 0..(N - 1) : generator.nodes[i + 1] = Node(i)

Mounted(c) == consumers[c].screen # "none"

\* the cursor instance c observes: the currentIndex of its generator
ObservedIndex(c) == heap[consumers[c].ref].currentIndex

\* the step is an advance() call made by instance c
AdvanceBy(c) == DispatchAdvanceSpiral(c) \/ RecordAdvance(c)

\* C19: cursor independence: when one component instance advances the
\* generator it uses, the currentIndex every other mounted instance observes
\* stays what it was.
CursorIndependence ==
    [][\A c \in ConsumerIds : \A d \in ConsumerIds \ {c} :
          (Mounted(c) /\ Mounted(d) /\ AdvanceBy(c))
              => ObservedIndex(d)' = ObservedIndex(d)]_vars

\* C20: advance() as a critical section: whatever the interleaving of the
\* advance() calls of the timer callbacks and async handlers of the
\* instances, a generator constructed at cursor 0 on which k calls were made
\* has currentIndex = k mod N: no update is lost.
NoLostUpdate ==
    \A o \in ObjectIds :
        Live(o) => heap[o].currentIndex = advanceCalls[o] % Len(heap[o].nodes)

\* two instances have both advanced the generator they share, a full turn
\* of calls together
NoLostUpdateWitness ==
    /\ \A c \in ConsumerIds :
          consumers[c].screen = "tphi10" /\ consumers[c].ref = 1 /\ consumers[c].advanced
    /\ advanceCalls[1] = Len(heap[1].nodes)
    /\ heap[1].currentIndex = 0

\* two handlers of one BlockchainScreen were in flight together and one of
\* them has advanced the screen's generator
NoLostUpdateAsyncWitness ==
    \E c \in ConsumerIds :
        /\ consumers[c].screen = "blockchain"
        /\ consumers[c].pending = 1
        /\ consumers[c].advanced
        /\ advanceCalls[consumers[c].ref] = 1

(***************************************************************************)
(* Properties of the generated node fields                                 *)
(***************************************************************************)
NodesGenerated == nodePc = "done"

\* the double is 1
IsOne(d) == d = MathExp(0)

\* what is known of the double allows it to be above 0
MayBePositive(d) == d.kind # "zero"

\* what is known of the double allows it to be at most 1
MayBeAtMostOne(d) == d.kind = "exp" => d.arg <= 0

\* what is known of the doubles allows a < b (the exponentials of two
\* arguments a hundredth or more apart are different doubles)
MayBeLess(a, b) ==
    /\ b.kind # "zero"
    /\ (a.kind = "exp" /\ b.kind = "exp") => a.arg < b.arg
    /\ (a.kind = "upto" /\ b.kind = "exp") => TRUE

\* C21: quantum factor decay: over the generated nodes quantum_factor is
\* strictly decreasing in the index, lies in (0, 1], and is 1 at index 0.
QuantumFactorDecay ==
    NodesGenerated =>
        /\ MayBePositive(nodeA.quantum_factor)
        /\ MayBeAtMostOne(nodeA.quantum_factor)
        /\ (nodeI1 = 0 => IsOne(nodeA.quantum_factor))
        /\ (nodeI1 < nodeI2 => MayBeLess(nodeB.quantum_factor, nodeA.quantum_factor))

\* C22: monotonic radius: for node indexes i1 < i2 the radius r = sqrt(i) * 10
\* of node i1 is at most that of node i2, and the radius of node 0 is 0.
MonotonicRadius ==
    (NodesGenerated /\ nodeClass = "constants") =>
        /\ (nodeI1 < nodeI2 => nodeA.r <= nodeB.r)
        /\ (nodeI1 = 0 => nodeA.r = 0)

\* the first and the last node of the spiral, the last one farther out
MonotonicRadiusWitness ==
    /\ NodesGenerated
    /\ nodeClass = "constants"
    /\ nodeI1 = 0
    /\ nodeI2 = SPIRAL_NODES - 1
    /\ nodeA.r = 0
    /\ nodeB.r > nodeA.r

\* the fields of a stored node: those generated for its index, with
\* quantum_factor scaled by 1 + influence * 0.2 where applyBlockchainInfluence
\* has written to it
StoredFields(class, node) ==
    IF node.scaledBy = 0 THEN GeneratedNode(class, node.index)
    ELSE [GeneratedNode(class, node.index) EXCEPT
             !.quantum_factor = [kind |-> "scaled", by |-> node.scaledBy, of |-> @]]

AdvanceSpiralOncePerAction ==
    [][LET n == Len(spiralGenerator.nodes)
       IN  /\ spiralGenerator'.currentIndex = (spiralGenerator.currentIndex + 1) % n
           /\ appState'.currentNode = getCurrentNode(spiralGenerator').value
           /\ appState'.depth = spiralGenerator'.currentIndex
      ]_vars

(***************************************************************************)
(* Properties of the sigil database                                        *)
(***************************************************************************)
DatabaseBuilt == sigilPc \in {"ready", "done"}

\* C26: the sigil database holds exactly 243 entries, one per well-formed
\* 5-character code; each entry's key is its ternaryCode and decodes to its
\* decimalValue; so a lookup with an input matching the 5-character pattern
\* finds a sigil and handleSigilDecode never reports 'Unknown Sigil'.
SigilDatabaseTotal ==
    /\ DatabaseBuilt =>
          /\ Cardinality(DOMAIN sigilDatabase) = Pow3(CODE_LENGTH)
          /\ DOMAIN sigilDatabase = [1..CODE_LENGTH -> Digits]
          /\ \A key \in DOMAIN sigilDatabase :
                /\ sigilDatabase[key].ternaryCode = key
                /\ balancedTernaryToDecimal(key) = sigilDatabase[key].decimalValue
    /\ sigilPc = "done" =>
          /\ sigilOutcome # [type |-> "SHOW_ALERT", title |-> "Unknown Sigil"]
          /\ VALID_PATTERN(ToUpperCase(sigilInput))
                => /\ sigilOutcome.type = "SET_CURRENT_SIGIL"
                   /\ sigilOutcome.payload.ternaryCode = ToUpperCase(sigilInput)

\* a code typed in lower case was found, the sigil of a negative value
SigilDatabaseTotalWitness ==
    /\ sigilPc = "done"
    /\ sigilInput = <<"t", "1", "t", "0", "t">>
    /\ sigilOutcome.type = "SET_CURRENT_SIGIL"
    /\ sigilOutcome.payload.decimalValue = balancedTernaryToDecimal(ToUpperCase(sigilInput))
    /\ sigilOutcome.payload.decimalValue < 0

(***************************************************************************)
(* Properties of the encode loop                                           *)
(***************************************************************************)
Abs(x) == IF x < 0 THEN -x ELSE x

\* C27: the encode loop terminates for every integer argument: each pass
\* makes num strictly smaller in magnitude, the loop is left, and for an
\* argument in the span of L digits at most L digits are produced.
EncodeLoopTerminates ==
    /\ [][LoopPass => Abs(loopNum') < Abs(loopNum)]_vars
    /\ [](\A L \in 1..MaxCodeLen : InSpan(loopStart, L) => Len(loopDigits) <= L)
    /\ <>(loopPc = "done" /\ loopNum = 0)

\* the loop was left after 5 passes on the negative end of the 5-digit span
EncodeLoopTerminatesWitness ==
    /\ loopPc = "done"
    /\ loopStart = MIN_VALUE
    /\ loopNum = 0
    /\ loopDigits = <<"T", "T", "T", "T", "T">>

(***************************************************************************)
(* Properties of the blockchain screen                                     *)
(***************************************************************************)
\* C28: chain linkage: the first block's previousHash is sixteen '0'
\* characters and every later block's previousHash is the hash of the block
\* before it in blocks, under any interleaving of addBlock calls.
ChainLinked ==
    \A k \in 1..Len(chainBlocks) :
        chainBlocks[k].previousHash =
            IF k = 1 THEN GENESIS_HASH ELSE chainBlocks[k - 1].hash

\* C29: record then advance: the j-th block added through the mounted screen
\* records node (j - 1) mod N, and no two consecutive blocks record the same
\* node, under any interleaving of handler invocations.
RecordThenAdvance ==
    \A k \in 1..Len(chainBlocks) :
        /\ k > chainLoaded =>
              chainBlocks[k].node = (k - chainLoaded - 1) % Len(chainGenerator.nodes)
        /\ k > 1 => chainBlocks[k].node # chainBlocks[k - 1].node

\* C30: monitoring timer uniqueness: at most one update interval is registered
\* at any time, and while the provider is mounted it is the one intervalRef
\* names; after stopMonitoring or resetSystem no timer is registered and
\* isActive is false; a startMonitoring call made while a timer is registered
\* changes neither the timers, nor the reference, nor isActive.
TimerUnique ==
    /\ [](/\ Cardinality(timers) <= 1
          /\ providerMounted =>
                timers = (IF intervalRef = Null THEN {} ELSE {intervalRef.id})
          /\ lastCall.op \in {"stopMonitoring", "resetSystem"} =>
                timers = {} /\ ~isActive)
    /\ [][(/\ monitorCalls' = monitorCalls + 1
           /\ lastCall'.op = "startMonitoring"
           /\ timers # {}) =>
              UNCHANGED <<timers, intervalRef, isActive, nextTimer>>]_vars

\* startMonitoring has returned early: a timer is registered and has fired
TimerUniqueWitness ==
    /\ lastCall = Called("startMonitoring", TRUE)
    /\ Cardinality(timers) = 1
    /\ isActive
    /\ ticks > 0

=============================================================================
